---- MODULE Spec2Model ----
(***************************************************************************)
(* Model of freeDateFinder.py: the free-interval engine                    *)
(* (get_free_intervals) and the command-line driver (main) that parses     *)
(* the caller's strings, fetches the iCalendar feeds and calls the engine. *)
(*                                                                         *)
(* Timestamps are integers counting minutes; a timestamp t lies on date    *)
(* t \div MinutesPerDay at time of day t % MinutesPerDay.  A timedelta is  *)
(* an integer number of minutes.                                           *)
(***************************************************************************)
EXTENDS Integers, Sequences, FiniteSets, TLC

VARIABLES pc, events, start_date, end_date, earliest_time, latest_time,
          min_length, free_intervals, args, url_idx, fetches, outcomes, error

vars == <<pc, events, start_date, end_date, earliest_time, latest_time,
          min_length, free_intervals, args, url_idx, fetches, outcomes, error>>

(***************************************************************************)
(* Bounds of the model.                                                    *)
(***************************************************************************)
MaxDay == 1          \* the engine is called with dates 0..MaxDay
MaxEvents == 2       \* the engine is called with at most MaxEvents events
MaxFeeds == 2        \* main is run with at most MaxFeeds --links
MaxComponents == 1   \* a calendar payload holds at most MaxComponents components

MinutesPerDay == 1440

\* Times of day the inputs are drawn from: 08:00, 09:00, 10:00, 18:00.
TodGrid == {480, 540, 600, 1080}

\* Daily windows (earliest_time, latest_time) with earliest <= latest.
DailyWindows == {<<480, 540>>, <<480, 1080>>, <<600, 1080>>}

\* Minimum lengths: 00:30 and 01:30.
MinLengths == {30, 90}

(***************************************************************************)
(* datetime helpers                                                        *)
(***************************************************************************)
DateOf(t) == t \div MinutesPerDay

TimeOf(t) == t % MinutesPerDay

Combine(d, tm) == d * MinutesPerDay + tm

(***************************************************************************)
(* events.sort(key=lambda event: event['start']): a stable sort, so events *)
(* with equal start keep the order they were supplied in.                  *)
(***************************************************************************)
InsertByStart(sorted, e) ==
    LET k == Cardinality({i \in 1..Len(sorted) : sorted[i].start <= e.start})
    IN  SubSeq(sorted, 1, k) \o <<e>> \o SubSeq(sorted, k + 1, Len(sorted))

RECURSIVE SortStable(_)
SortStable(s) ==
    IF s = <<>> THEN <<>>
    ELSE InsertByStart(SortStable(SubSeq(s, 1, Len(s) - 1)), s[Len(s)])

\* Faulty variant of SortByStart: the list is scanned in the order supplied.
SortByStart_Unsorted(s) == s

SortByStart(s) == SortStable(s)

(***************************************************************************)
(* get_free_intervals, lines 39-47: the gap before the first event.        *)
(***************************************************************************)
LeadingGap(sorted, sd, et, ml) ==
    IF sorted # <<>>
    THEN LET first_event == sorted[1]
         IN  IF DateOf(first_event.start) >= sd
             THEN LET gap_start == Combine(DateOf(first_event.start), et)
                      gap_end   == first_event.start
                  IN  IF gap_end - gap_start >= ml
                      THEN << <<gap_start, gap_end>> >>
                      ELSE <<>>
             ELSE <<>>
    ELSE <<>>

(***************************************************************************)
(* get_free_intervals, lines 49-59: the gaps between consecutive events,   *)
(* for i in range(1, len(events)) (0-based); here i runs over 2..Len.      *)
(***************************************************************************)
\* Faulty variant of InteriorGapAt: the length test of line 58 is dropped.
InteriorGapAt_NoLengthTest(sorted, i, sd, ed, ml) ==
    LET prev_event == sorted[i - 1]
        curr_event == sorted[i]
        gap_start  == prev_event.end
        gap_end    == curr_event.start
    IN  IF DateOf(gap_end) >= sd /\ DateOf(gap_start) <= ed
        THEN << <<gap_start, gap_end>> >>
        ELSE <<>>

InteriorGapAt(sorted, i, sd, ed, ml) ==
    LET prev_event == sorted[i - 1]
        curr_event == sorted[i]
        gap_start  == prev_event.end
        gap_end    == curr_event.start
    IN  IF DateOf(gap_end) >= sd /\ DateOf(gap_start) <= ed
        THEN IF gap_end - gap_start >= ml
             THEN << <<gap_start, gap_end>> >>
             ELSE <<>>
        ELSE <<>>

RECURSIVE InteriorLoop(_, _, _, _, _)
InteriorLoop(sorted, i, sd, ed, ml) ==
    IF i > Len(sorted) THEN <<>>
    ELSE InteriorGapAt(sorted, i, sd, ed, ml)
            \o InteriorLoop(sorted, i + 1, sd, ed, ml)

InteriorGaps(sorted, sd, ed, ml) == InteriorLoop(sorted, 2, sd, ed, ml)

(***************************************************************************)
(* get_free_intervals, lines 61-68: the gap after the last event.          *)
(***************************************************************************)
\* Faulty variant of TrailingGap: the gap runs to the end of the date range
\* (end_date) instead of the end of the last event's own day.
TrailingGap_ToEndDate(sorted, ed, lt, ml) ==
    IF sorted # <<>>
    THEN LET last_event == sorted[Len(sorted)]
         IN  IF DateOf(last_event.end) <= ed
             THEN LET gap_start == last_event.end
                      gap_end   == Combine(ed, lt)
                  IN  IF gap_end - gap_start >= ml
                      THEN << <<gap_start, gap_end>> >>
                      ELSE <<>>
             ELSE <<>>
    ELSE <<>>

TrailingGap(sorted, ed, lt, ml) ==
    IF sorted # <<>>
    THEN LET last_event == sorted[Len(sorted)]
         IN  IF DateOf(last_event.end) <= ed
             THEN LET gap_start == last_event.end
                      gap_end   == Combine(DateOf(last_event.end), lt)
                  IN  IF gap_end - gap_start >= ml
                      THEN << <<gap_start, gap_end>> >>
                      ELSE <<>>
             ELSE <<>>
    ELSE <<>>

(***************************************************************************)
(* get_free_intervals, lines 32-70: the value returned.                    *)
(***************************************************************************)
\* Faulty variant of GetFreeIntervals: an empty collection is answered with
\* the whole window.
GetFreeIntervals_WholeWindow(evs, sd, ed, et, lt, ml) ==
    IF evs = <<>>
    THEN << <<Combine(sd, et), Combine(ed, lt)>> >>
    ELSE LET sorted == SortByStart(evs)
         IN  LeadingGap(sorted, sd, et, ml)
                \o InteriorGaps(sorted, sd, ed, ml)
                \o TrailingGap(sorted, ed, lt, ml)

GetFreeIntervals(evs, sd, ed, et, lt, ml) ==
    LET sorted == SortByStart(evs)
    IN  LeadingGap(sorted, sd, et, ml)
            \o InteriorGaps(sorted, sd, ed, ml)
            \o TrailingGap(sorted, ed, lt, ml)

(***************************************************************************)
(* Caller-supplied strings.  A string is modelled by the sequence of its   *)
(* integer fields: "12.03.24" is <<12, 3, 24>>, "08:00" is <<8, 0>>.  A    *)
(* parse yields [ok, val]; ok = FALSE stands for the ValueError raised.    *)
(***************************************************************************)
\* Days before each month of 2024; the dates of the model all lie in 2024.
DaysBeforeMonth == <<0, 31, 60, 91, 121, 152, 182, 213, 244, 274, 305, 335>>

DaysInMonth == <<31, 29, 31, 30, 31, 30, 31, 31, 30, 31, 30, 31>>

\* parse_date: strptime(date_str, "%d.%m.%y").date(), as a day number.
ParseDate(str) ==
    IF /\ Len(str) = 3
       /\ str[2] \in 1..12
       /\ str[1] \in 1..DaysInMonth[str[2]]
       /\ str[3] \in 0..99
    THEN [ok |-> TRUE, val |-> DaysBeforeMonth[str[2]] + str[1] - 1]
    ELSE [ok |-> FALSE, val |-> 0]

\* parse_time: strptime(time_str, "%H:%M").time(), as minutes after 00:00.
ParseTime(str) ==
    IF Len(str) = 2 /\ str[1] \in 0..23 /\ str[2] \in 0..59
    THEN [ok |-> TRUE, val |-> str[1] * 60 + str[2]]
    ELSE [ok |-> FALSE, val |-> 0]

\* parse_duration: hours, minutes = map(int, s.split(":")); no range test.
ParseDuration(str) ==
    IF Len(str) = 2
    THEN [ok |-> TRUE, val |-> str[1] * 60 + str[2]]
    ELSE [ok |-> FALSE, val |-> 0]

\* Faulty variant of ParsedOK: min_length is not parsed before the feed loop.
ParsedOK_DurationDeferred(a) ==
    /\ ParseDate(a.start).ok
    /\ ParseDate(a.end).ok
    /\ ParseTime(a.earliest).ok
    /\ ParseTime(a.latest).ok

\* main, lines 86-90: the five parses, each of which may raise.
ParsedOK(a) ==
    /\ ParseDate(a.start).ok
    /\ ParseDate(a.end).ok
    /\ ParseTime(a.earliest).ok
    /\ ParseTime(a.latest).ok
    /\ ParseDuration(a.min_length).ok

(***************************************************************************)
(* Inputs of the command line.                                             *)
(***************************************************************************)
\* "12.03.24", "13.03.24", and the malformed "31.02.24".
DateStrings == {<<12, 3, 24>>, <<13, 3, 24>>, <<31, 2, 24>>}

\* "08:00" and the malformed "24:00".
EarliestStrings == {<<8, 0>>, <<24, 0>>}

\* "18:00" and the malformed "18".
LatestStrings == {<<18, 0>>, <<18>>}

\* "00:30", "01:30", and the malformed "90".
DurationStrings == {<<0, 30>>, <<1, 30>>, <<90>>}

NoArgs == [start |-> <<>>, end |-> <<>>, earliest |-> <<>>, latest |-> <<>>,
           min_length |-> <<>>, links |-> 0]

\* args.links is the number of URLs given; 0 stands for --links absent (None).
ArgSets == [start : DateStrings, end : DateStrings,
            earliest : EarliestStrings, latest : LatestStrings,
            min_length : DurationStrings, links : 0..MaxFeeds]

(***************************************************************************)
(* What a feed answers.  A response has a status code and a body; the body *)
(* either decodes to a calendar (a sequence of components) or is rejected  *)
(* by Calendar.from_ical with a ValueError.                                *)
(***************************************************************************)
FeedDays == {ParseDate(<<12, 3, 24>>).val, ParseDate(<<13, 3, 24>>).val}

\* 09:00 and 10:00 of the first day, 09:00 of the second.
FeedTimestamps == {Combine(d, 540) : d \in FeedDays}
                    \cup {Combine(ParseDate(<<12, 3, 24>>).val, 600)}

\* The components calendar.walk() may yield: events with dtend >= dtstart
\* and one component that is not a VEVENT.
Components ==
    {[name |-> "VEVENT", dtstart |-> st, dtend |-> en] :
        st \in FeedTimestamps, en \in FeedTimestamps}
    \cup {[name |-> "VTODO", dtstart |-> 0, dtend |-> 0]}

ConformingComponents == {c \in Components : c.dtend >= c.dtstart}

RECURSIVE SeqsUpTo(_, _)
SeqsUpTo(S, n) ==
    IF n = 0 THEN {<<>>}
    ELSE LET shorter == SeqsUpTo(S, n - 1)
         IN  shorter \cup {Append(q, x) : q \in {r \in shorter : Len(r) = n - 1},
                                           x \in S}

Calendars == SeqsUpTo(ConformingComponents, MaxComponents)

(***************************************************************************)
(* main, lines 101-111: the events of one calendar that are kept.          *)
(***************************************************************************)
RECURSIVE KeptEvents(_, _, _)
KeptEvents(calendar, sd, ed) ==
    IF calendar = <<>> THEN <<>>
    ELSE LET component == Head(calendar)
             rest      == KeptEvents(Tail(calendar), sd, ed)
         IN  IF component.name = "VEVENT"
             THEN LET event_start == component.dtstart
                      event_end   == component.dtend
                  IN  IF sd <= DateOf(event_start) /\ DateOf(event_start) <= ed
                      THEN <<[start |-> event_start, end |-> event_end]>> \o rest
                      ELSE rest
             ELSE rest

(***************************************************************************)
(* The engine called directly: Init draws its arguments, Call applies it.  *)
(***************************************************************************)
EngineTimestamps == {Combine(d, t) : d \in 0..MaxDay, t \in TodGrid}

\* Busy intervals with end >= start: those within one day of the grid, and
\* the overnight ones from 18:00 to 09:00 of the next day.
EngineEvents == {ev \in [start : EngineTimestamps, end : EngineTimestamps] :
                    /\ ev.end >= ev.start
                    /\ \/ DateOf(ev.start) = DateOf(ev.end)
                       \/ /\ DateOf(ev.end) = DateOf(ev.start) + 1
                          /\ TimeOf(ev.start) = 1080
                          /\ TimeOf(ev.end) = 540}

Init ==
    /\ pc = "call"
    /\ events \in SeqsUpTo(EngineEvents, MaxEvents)
    /\ start_date \in 0..MaxDay
    /\ end_date \in start_date..MaxDay
    /\ \E w \in DailyWindows : earliest_time = w[1] /\ latest_time = w[2]
    /\ min_length \in MinLengths
    /\ free_intervals = <<>>
    /\ args = NoArgs
    /\ url_idx = 0
    /\ fetches = 0
    /\ outcomes = <<>>
    /\ error = "none"

\* get_free_intervals: sorts the caller's list in place and returns the gaps.
Call ==
    /\ pc = "call"
    /\ events' = SortByStart(events)
    /\ free_intervals' = GetFreeIntervals(events, start_date, end_date,
                                          earliest_time, latest_time, min_length)
    /\ pc' = "returned"
    /\ UNCHANGED <<start_date, end_date, earliest_time, latest_time, min_length,
                   args, url_idx, fetches, outcomes, error>>

Next == Call

Spec == Init /\ [][Next]_vars

(***************************************************************************)
(* main.                                                                   *)
(***************************************************************************)
InitMain ==
    /\ pc = "parse"
    /\ args \in ArgSets
    /\ events = <<>>
    /\ start_date = 0
    /\ end_date = 0
    /\ earliest_time = 0
    /\ latest_time = 0
    /\ min_length = 0
    /\ free_intervals = <<>>
    /\ url_idx = 0
    /\ fetches = 0
    /\ outcomes = <<>>
    /\ error = "none"

\* lines 86-92: every string parses; all_events = [].
ParseArgs ==
    /\ pc = "parse"
    /\ ParsedOK(args)
    /\ start_date' = ParseDate(args.start).val
    /\ end_date' = ParseDate(args.end).val
    /\ earliest_time' = ParseTime(args.earliest).val
    /\ latest_time' = ParseTime(args.latest).val
    /\ min_length' = ParseDuration(args.min_length).val
    /\ events' = <<>>
    /\ url_idx' = 1
    /\ pc' = "loop"
    /\ UNCHANGED <<free_intervals, args, fetches, outcomes, error>>

\* lines 86-90: a parse raises ValueError, which nothing catches.
ParseArgsError ==
    /\ pc = "parse"
    /\ ~ParsedOK(args)
    /\ error' = "ValueError: argument"
    /\ pc' = "crashed"
    /\ UNCHANGED <<events, start_date, end_date, earliest_time, latest_time,
                   min_length, free_intervals, args, url_idx, fetches, outcomes>>

\* line 95 with --links absent: iterating None raises TypeError.
LoopNoLinks ==
    /\ pc = "loop"
    /\ args.links = 0
    /\ error' = "TypeError: links"
    /\ pc' = "crashed"
    /\ UNCHANGED <<events, start_date, end_date, earliest_time, latest_time,
                   min_length, free_intervals, args, url_idx, fetches, outcomes>>

\* lines 97, 21-26, 99: the feed answers with a status other than 200;
\* fetch_ical returns None and the feed is skipped.
FetchFailed ==
    /\ pc = "loop"
    /\ args.links > 0
    /\ url_idx <= args.links
    /\ fetches' = fetches + 1
    /\ outcomes' = Append(outcomes, "failed")
    /\ url_idx' = url_idx + 1
    /\ UNCHANGED <<pc, events, start_date, end_date, earliest_time, latest_time,
                   min_length, free_intervals, args, error>>

\* lines 97, 21-23: status 200 with a body Calendar.from_ical rejects; the
\* ValueError leaves fetch_ical and main uncaught.
FetchMalformed ==
    /\ pc = "loop"
    /\ args.links > 0
    /\ url_idx <= args.links
    /\ fetches' = fetches + 1
    /\ outcomes' = Append(outcomes, "malformed")
    /\ error' = "ValueError: from_ical"
    /\ pc' = "crashed"
    /\ UNCHANGED <<events, start_date, end_date, earliest_time, latest_time,
                   min_length, free_intervals, args, url_idx>>

\* lines 97-112: status 200 with a calendar; its events in range are added.
FetchCalendar ==
    /\ pc = "loop"
    /\ args.links > 0
    /\ url_idx <= args.links
    /\ \E calendar \in Calendars :
          events' = events \o KeptEvents(calendar, start_date, end_date)
    /\ fetches' = fetches + 1
    /\ outcomes' = Append(outcomes, "loaded")
    /\ url_idx' = url_idx + 1
    /\ UNCHANGED <<pc, start_date, end_date, earliest_time, latest_time,
                   min_length, free_intervals, args, error>>

\* lines 114-123: the loop is over; the engine runs and the result is printed.
Compute ==
    /\ pc = "loop"
    /\ args.links > 0
    /\ url_idx > args.links
    /\ events' = SortByStart(events)
    /\ free_intervals' = GetFreeIntervals(events, start_date, end_date,
                                          earliest_time, latest_time, min_length)
    /\ pc' = "done"
    /\ UNCHANGED <<start_date, end_date, earliest_time, latest_time, min_length,
                   args, url_idx, fetches, outcomes, error>>

NextMain ==
    \/ ParseArgs
    \/ ParseArgsError
    \/ LoopNoLinks
    \/ FetchFailed
    \/ FetchMalformed
    \/ FetchCalendar
    \/ Compute

SpecMain == InitMain /\ [][NextMain]_vars

(***************************************************************************)
(* Properties.                                                             *)
(***************************************************************************)
Returned == pc \in {"returned", "done"}

GapIndices == 1..Len(free_intervals)

\* The open spans (a, b) and (c, d) share a point.
Intersects(a, b, c, d) ==
    (IF a >= c THEN a ELSE c) < (IF b <= d THEN b ELSE d)

Orderings(s) ==
    {p \in [1..Len(s) -> 1..Len(s)] : \A i, j \in 1..Len(s) : i # j => p[i] # p[j]}

Reordered(s, p) == [i \in 1..Len(s) |-> s[p[i]]]

\* C1: every returned interval (start, end) has end - start >= min_length;
\* with min_length > 0 none has zero or negative duration.
C1_MinLength ==
    Returned =>
        \A i \in GapIndices :
            /\ free_intervals[i][2] - free_intervals[i][1] >= min_length
            /\ min_length > 0 => free_intervals[i][2] > free_intervals[i][1]

\* The leading, the interior and the trailing gap are all returned.
C1_Witness ==
    /\ pc = "returned"
    /\ Len(events) = 2
    /\ Len(free_intervals) = 3
    /\ min_length > 0

\* C2: for busy intervals with end >= start and min_length > 0 the returned
\* sequence is strictly ascending by start and pairwise non-overlapping.
C2_Ordered ==
    (Returned /\ min_length > 0 /\ \A k \in 1..Len(events) : events[k].end >= events[k].start)
        => \A i, j \in GapIndices :
              i < j => /\ free_intervals[i][2] <= free_intervals[j][1]
                       /\ free_intervals[i][1] < free_intervals[j][1]

\* Two overlapping busy intervals, and at least two intervals returned.
C2_Witness ==
    /\ pc = "returned"
    /\ Len(free_intervals) >= 2
    /\ \E i, j \in 1..Len(events) : i < j /\ events[j].start < events[i].end

\* C3: the result is the same for every order in which the same busy
\* intervals are supplied.
C3_OrderIndependent ==
    pc = "returned" =>
        \A p \in Orderings(events) :
            GetFreeIntervals(Reordered(events, p), start_date, end_date,
                             earliest_time, latest_time, min_length)
                = free_intervals

\* C4: no returned interval intersects a busy interval.
C4_ActuallyFree ==
    Returned =>
        \A i \in GapIndices : \A k \in 1..Len(events) :
            ~Intersects(free_intervals[i][1], free_intervals[i][2],
                        events[k].start, events[k].end)

\* The spans of day d that lie in the daily window and meet no busy interval.
WindowPoints(d) ==
    {Combine(d, t) : t \in {x \in TodGrid : earliest_time <= x /\ x <= latest_time}}

FreeSpans(d) ==
    {sp \in WindowPoints(d) \X WindowPoints(d) :
        /\ sp[1] < sp[2]
        /\ \A k \in 1..Len(events) :
              ~Intersects(sp[1], sp[2], events[k].start, events[k].end)}

MaximalFreeSpans(d) ==
    {sp \in FreeSpans(d) :
        \A other \in FreeSpans(d) :
            (other[1] <= sp[1] /\ sp[2] <= other[2]) => other = sp}

\* C5: for a non-empty collection, every maximal free span of the window
\* that is at least min_length long is contained in a returned interval.
C5_Complete ==
    (pc = "returned" /\ events # <<>>) =>
        \A d \in start_date..end_date : \A sp \in MaximalFreeSpans(d) :
            sp[2] - sp[1] >= min_length =>
                \E i \in GapIndices :
                    free_intervals[i][1] <= sp[1] /\ sp[2] <= free_intervals[i][2]

\* C6: every returned interval lies inside the availability window.
C6_InsideWindow ==
    Returned =>
        \A i \in GapIndices :
            /\ free_intervals[i][1] >= Combine(start_date, earliest_time)
            /\ free_intervals[i][2] <= Combine(end_date, latest_time)
            /\ TimeOf(free_intervals[i][1]) >= earliest_time
            /\ TimeOf(free_intervals[i][2]) <= latest_time

\* C7: an empty collection of busy intervals yields the empty result, also
\* at the end of a run of main in which no feed contributed an event.
C7_EmptyInEmptyOut ==
    (Returned /\ events = <<>>) => free_intervals = <<>>

\* A run of main that ended with one feed failed and one feed loaded whose
\* events all fell outside the date range.
C7_Witness ==
    /\ pc = "done"
    /\ events = <<>>
    /\ \E i, j \in 1..Len(outcomes) : outcomes[i] = "failed" /\ outcomes[j] = "loaded"

\* C8: for a single busy interval (s, e) with s.date >= start_date and
\* e.date <= end_date the result is the leading gap
\* (combine(s.date, earliest_time), s) if long enough, then the trailing gap
\* (e, combine(e.date, latest_time)) if long enough, and nothing else.
C8_SingleInterval ==
    (/\ pc = "returned"
     /\ Len(events) = 1
     /\ DateOf(events[1].start) >= start_date
     /\ DateOf(events[1].end) <= end_date)
        => LET s == events[1].start
               e == events[1].end
               lead_start == Combine(DateOf(s), earliest_time)
               trail_end  == Combine(DateOf(e), latest_time)
           IN  free_intervals =
                  (IF s - lead_start >= min_length
                   THEN << <<lead_start, s>> >> ELSE <<>>)
                  \o (IF trail_end - e >= min_length
                      THEN << <<e, trail_end>> >> ELSE <<>>)

\* Busy 09:00-10:00 on day 0, window 08:00-18:00 on day 0, minimum
\* 00:30: the result is (08:00, 09:00), (10:00, 18:00).
C8_Witness ==
    /\ pc = "returned"
    /\ events = <<[start |-> 540, end |-> 600]>>
    /\ start_date = 0 /\ end_date = 0
    /\ earliest_time = 480 /\ latest_time = 1080 /\ min_length = 30
    /\ free_intervals = << <<480, 540>>, <<600, 1080>> >>

\* C9: once a feed has been fetched the run is never aborted, whatever the
\* feeds answer; it goes on to the remaining feeds and to the engine.
C9_FeedFailureNeverAborts ==
    fetches > 0 => pc # "crashed"

\* C10: a run with a malformed string ends in an error without a fetch and
\* without the engine; a fetch happens only when all five strings parse.
AllParse ==
    /\ ParseDate(args.start).ok
    /\ ParseDate(args.end).ok
    /\ ParseTime(args.earliest).ok
    /\ ParseTime(args.latest).ok
    /\ ParseDuration(args.min_length).ok

C10_ValidationBeforeFetch ==
    /\ fetches > 0 => AllParse
    /\ (pc # "parse" /\ ~AllParse) =>
          /\ pc = "crashed"
          /\ error = "ValueError: argument"
          /\ fetches = 0
          /\ free_intervals = <<>>

\* A run ended in the error with min_length, the last string parsed, as the
\* only malformed one.
C10_Witness ==
    /\ pc = "crashed"
    /\ ParseDate(args.start).ok
    /\ ParseDate(args.end).ok
    /\ ParseTime(args.earliest).ok
    /\ ParseTime(args.latest).ok
    /\ ~ParseDuration(args.min_length).ok
    /\ args.links > 0
    /\ fetches = 0

====
